---- MODULE Spec2Model ----
(***************************************************************************)
(* Flask-EasyJWT: the FlaskEasyJWT extension (flask_easyjwt.py) and the    *)
(* Token base class (token.py), modelled as a state machine over the host  *)
(* applications' configuration mappings, the ambient current application,  *)
(* the UTC clock and one token object.                                     *)
(***************************************************************************)
EXTENDS Integers, Sequences, FiniteSets, TLC

(* ---------------------------- bounds ----------------------------------- *)

\* Largest clock reading (ticks since datetime.min) the model explores.
MaxClock == 3

\* Scaled stand-in for datetime.max: the largest representable timestamp,
\* in ticks.
MaxDate == 9

\* Scaled stand-in for timedelta.max (magnitude limit of a timedelta), in
\* ticks.
MaxTimedelta == 12

\* Longest configuration string the model explores.
MaxStrLen == 3

\* Largest magnitude of an integer (seconds) / timedelta (ticks)
\* configuration value explored.
MaxValidity == 4

\* Scaled stand-in for the resolution of datetime and timedelta: the number
\* of ticks (microseconds) in one second.
TicksPerSecond == 2

\* Number of host writes to a configuration mapping or to the token object.
MaxWrites == 1

(* ------------------------- program constants --------------------------- *)

\* flask_easyjwt.py:18
CONFIGURATION_KEY == "EASYJWT_KEY"

\* flask_easyjwt.py:23
CONFIGURATION_TOKEN_VALIDITY == "EASYJWT_TOKEN_VALIDITY"

\* flask_easyjwt.py:131
configuration_secret_key == "SECRET_KEY"

\* flask_easyjwt.py:128, the name in the extension registry
EXTENSION_NAME == "easyjwt"

\* datetime.min, the origin of the model's time axis
MinDate == 0

(* ------------------------------ values --------------------------------- *)

\* A Python value: its type, its numeric content and its text content.
Val(type, n, s) == [type |-> type, n |-> n, s |-> s]

None == Val("NoneType", 0, <<>>)

IntV(n) == Val("int", n, <<>>)

\* bool is a subclass of int: True == 1, False == 0
BoolV(n) == Val("bool", n, <<>>)

StrV(s) == Val("str", 0, s)

BytesV(s) == Val("bytes", 0, s)

FloatV(n) == Val("float", n, <<>>)

\* timedelta of d ticks
TimedeltaV(d) == Val("timedelta", d, <<>>)

\* datetime, t ticks after datetime.min
DatetimeV(t) == Val("datetime", t, <<>>)

\* isinstance(v, (int, float))
IsInstanceInt_Number(v) == v.type \in {"int", "bool", "float"}

\* isinstance(v, int)
IsInstanceInt(v) == v.type \in {"int", "bool"}

\* isinstance(v, str)
IsInstanceStr(v) == v.type = "str"

\* isinstance(v, timedelta)
IsInstanceTimedelta(v) == v.type = "timedelta"

(* --------------------------- int(str) ---------------------------------- *)

Digits == {"0", "1", "2", "3", "4", "5", "6", "7", "8", "9"}

DigitVal(c) ==
  CASE c = "0" -> 0 [] c = "1" -> 1 [] c = "2" -> 2 [] c = "3" -> 3
    [] c = "4" -> 4 [] c = "5" -> 5 [] c = "6" -> 6 [] c = "7" -> 7
    [] c = "8" -> 8 [] c = "9" -> 9

RECURSIVE LStrip(_)
LStrip(s) == IF s # <<>> /\ Head(s) = " " THEN LStrip(Tail(s)) ELSE s

RECURSIVE RStrip(_)
RStrip(s) ==
  IF s # <<>> /\ s[Len(s)] = " " THEN RStrip(SubSeq(s, 1, Len(s) - 1)) ELSE s

Strip(s) == RStrip(LStrip(s))

\* The digit group of an integer literal: digits, single underscores between.
IsDigitGroup(s) ==
  /\ s # <<>>
  /\ \A i \in 1..Len(s) : s[i] \in Digits \cup {"_"}
  /\ s[1] \in Digits
  /\ s[Len(s)] \in Digits
  /\ \A i \in 1..(Len(s) - 1) : ~(s[i] = "_" /\ s[i + 1] = "_")

RECURSIVE DigitGroupValue(_, _)
DigitGroupValue(s, acc) ==
  IF s = <<>> THEN acc
  ELSE IF Head(s) = "_" THEN DigitGroupValue(Tail(s), acc)
  ELSE DigitGroupValue(Tail(s), 10 * acc + DigitVal(Head(s)))

\* int(s) for a str s: [ok |-> FALSE] stands for ValueError.
ParseInt(s) ==
  LET t == Strip(s)
      signed == t # <<>> /\ Head(t) \in {"+", "-"}
      body == IF signed THEN Tail(t) ELSE t
      sign == IF signed /\ Head(t) = "-" THEN 0 - 1 ELSE 1
  IN IF IsDigitGroup(body)
       THEN [ok |-> TRUE, n |-> sign * DigitGroupValue(body, 0)]
       ELSE [ok |-> FALSE, n |-> 0]

(* --------------------------- warnings ---------------------------------- *)

\* A warning message is the sequence of its words and punctuation marks.
KeyWarning ==
  <<"No", "key", "set", ",", "token", "will", "not", "be", "encrypted", ".",
    "Set", CONFIGURATION_KEY, ".">>

ValidityWarning ==
  <<CONFIGURATION_TOKEN_VALIDITY, "must", "be", "an", "int", ",", "a",
    "string", "castable", "to", "an", "int", ",", "or",
    "datetime.timedelta", ".">>

InitWarning ==
  <<"No", "key", "set", "for", "encrypting", "tokens", ".", "Set",
    configuration_secret_key, "or", CONFIGURATION_KEY, ".">>

(* ------------------------ outcomes of a call --------------------------- *)

\* raised = "" when the call returned; value is what it returned.
Outcome(raised, value, warnings) ==
  [raised |-> raised, value |-> value, warnings |-> warnings]

Return(value, warnings) == Outcome("", value, warnings)

Raise(error, warnings) == Outcome(error, None, warnings)

NoApp == "NoApp"

(* ------------------- the configuration mapping ------------------------- *)

\* del cfg[k]
Delete(cfg, k) == [j \in (DOMAIN cfg) \ {k} |-> cfg[j]]

\* cfg[k] = v
Store(cfg, k, v) ==
  [j \in (DOMAIN cfg) \cup {k} |-> IF j = k THEN v ELSE cfg[j]]

\* dict.get(k, default)
Get(cfg, k, default) == IF k \in DOMAIN cfg THEN cfg[k] ELSE default

\* SetDefault written as "cfg[k] = cfg.get(k) or default": a present entry
\* whose value is None is overwritten.
SetDefault_OverwritesNone(cfg, k, default) ==
  IF k \in DOMAIN cfg /\ cfg[k] # None THEN cfg ELSE Store(cfg, k, default)

\* dict.setdefault(k, default): the mapping afterwards
SetDefault(cfg, k, default) ==
  IF k \in DOMAIN cfg THEN cfg ELSE cfg @@ (k :> default)

(* ------------------------ FlaskEasyJWT --------------------------------- *)

\* Application preferring the active application to the explicit one.
Application_PreferCurrent(explicit, current) ==
  IF current # NoApp THEN current ELSE explicit

\* FlaskEasyJWT._application: the explicit application, else current_app.
\* NoApp stands for the unbound current_app proxy.
Application(explicit, current) ==
  IF explicit # NoApp THEN explicit ELSE current

\* StrToInt guarded by str.isdigit() instead of try: int(): signs, spaces
\* and underscores are not accepted.
StrToInt_IsDigit(validity) ==
  IF /\ IsInstanceStr(validity)
     /\ validity.s # <<>>
     /\ \A i \in 1..Len(validity.s) : validity.s[i] \in Digits
    THEN IntV(ParseInt(validity.s).n)
    ELSE validity

\* expiration_date, lines 68-75: a str is replaced by int(str) unless
\* int() raises ValueError.
StrToInt(validity) ==
  IF IsInstanceStr(validity) /\ ParseInt(validity.s).ok
    THEN IntV(ParseInt(validity.s).n)
    ELSE validity

\* timedelta(seconds=n) raises OverflowError beyond timedelta.max.
TimedeltaOverflows(n) ==
  \/ n * TicksPerSecond > MaxTimedelta
  \/ n * TicksPerSecond < 0 - MaxTimedelta

\* expiration_date, lines 78-79: an int becomes timedelta(seconds=int).
IntToTimedelta(validity) ==
  IF IsInstanceInt(validity) THEN TimedeltaV(validity.n * TicksPerSecond)
  ELSE validity

\* datetime + timedelta raises OverflowError outside datetime.min..max.
DateOverflows(t) == t < MinDate \/ t > MaxDate

\* AddValidity with the sign of the validity slipped.
AddValidity_Subtract(utcnow, validity) == utcnow - validity.n

\* AddValidity on a clock reading taken once, when the module was loaded
\* (the first clock reading of the model), instead of at the call.
AddValidity_ImportTime(utcnow, validity) == 1 + validity.n

\* AddValidity on datetime.now() of a host one (scaled) hour east of UTC.
AddValidity_LocalTime(utcnow, validity) == (utcnow + 1) + validity.n

\* expiration_date, line 87: datetime.utcnow() + validity
AddValidity(utcnow, validity) == utcnow + validity.n

\* FlaskEasyJWT.expiration_date for the resolved application, read at
\* clock reading utcnow.
ExpirationDate(application, cfgs, utcnow) ==
  IF application = NoApp THEN Raise("RuntimeError", <<>>)
  ELSE IF CONFIGURATION_TOKEN_VALIDITY \notin DOMAIN cfgs[application]
    THEN Raise("KeyError", <<>>)
  ELSE
    LET validity == cfgs[application][CONFIGURATION_TOKEN_VALIDITY]
        parsed == StrToInt(validity)
        delta == IntToTimedelta(parsed)
    IN IF validity = None THEN Return(None, <<>>)
       ELSE IF IsInstanceInt(parsed) /\ TimedeltaOverflows(parsed.n)
         THEN Raise("OverflowError", <<>>)
       ELSE IF ~IsInstanceTimedelta(delta)
         THEN Return(None, <<ValidityWarning>>)
       ELSE IF DateOverflows(AddValidity(utcnow, delta))
         THEN Raise("OverflowError", <<>>)
       ELSE Return(DatetimeV(AddValidity(utcnow, delta)), <<>>)

\* Key swallowing the missing application context.
Key_NoContextDefault(application, cfgs) ==
  IF application = NoApp THEN Return(None, <<KeyWarning>>)
  ELSE IF CONFIGURATION_KEY \notin DOMAIN cfgs[application]
    THEN Raise("KeyError", <<>>)
  ELSE
    LET key == cfgs[application][CONFIGURATION_KEY]
    IN IF key = None THEN Return(None, <<KeyWarning>>)
       ELSE Return(key, <<>>)

\* FlaskEasyJWT.key for the resolved application.
Key(application, cfgs) ==
  IF application = NoApp THEN Raise("RuntimeError", <<>>)
  ELSE IF CONFIGURATION_KEY \notin DOMAIN cfgs[application]
    THEN Raise("KeyError", <<>>)
  ELSE
    LET key == cfgs[application][CONFIGURATION_KEY]
    IN IF key = None THEN Return(None, <<KeyWarning>>)
       ELSE Return(key, <<>>)

\* InitAppConfig without the fallback to SECRET_KEY.
InitAppConfig_NoFallback(cfg) ==
  SetDefault(SetDefault(cfg, CONFIGURATION_KEY, None),
             CONFIGURATION_TOKEN_VALIDITY, None)

\* InitAppConfig taking SECRET_KEY again whenever EASYJWT_KEY is None.
InitAppConfig_Refresh(cfg) ==
  LET secret_key == Get(cfg, configuration_secret_key, None)
      defaulted == SetDefault(SetDefault(cfg, CONFIGURATION_KEY, secret_key),
                              CONFIGURATION_TOKEN_VALIDITY, None)
  IN IF defaulted[CONFIGURATION_KEY] = None
       THEN Store(defaulted, CONFIGURATION_KEY, secret_key)
       ELSE defaulted

\* init_app, lines 131-136: the configuration mapping after the defaults.
InitAppConfig(cfg) ==
  LET secret_key == Get(cfg, configuration_secret_key, None)
  IN SetDefault(SetDefault(cfg, CONFIGURATION_KEY, secret_key),
                CONFIGURATION_TOKEN_VALIDITY, None)

\* InitAppWarnings warning only when init_app had to create the entry.
InitAppWarnings_FirstRunOnly(cfg) ==
  IF CONFIGURATION_KEY \notin DOMAIN cfg
       /\ InitAppConfig(cfg)[CONFIGURATION_KEY] = None
    THEN <<InitWarning>> ELSE <<>>

\* init_app, lines 139-140: the warnings of the call.
InitAppWarnings(cfg) ==
  IF InitAppConfig(cfg)[CONFIGURATION_KEY] = None
    THEN <<InitWarning>> ELSE <<>>

(* ------------------------------ state ---------------------------------- *)

VARIABLES
  config,                \* application -> its configuration mapping
  extensions,            \* application -> its extension registry
  constructed,           \* the FlaskEasyJWT object exists
  explicit_application,  \* FlaskEasyJWT._explicit_application, or NoApp
  current_app,           \* the active application of the context, or NoApp
  now,                   \* the UTC clock
  flask_easyjwt,         \* Token.flask_easyjwt is set to the extension
  token,                 \* the token object
  jwt,                   \* the token string of the last successful create()
  writes,                \* host writes made so far
  last                   \* the most recent call: arguments and outcome

vars ==
  <<config, extensions, constructed, explicit_application, current_app, now,
    flask_easyjwt, token, jwt, writes, last>>

Apps == {"A", "B"}

\* The values the host stores under EASYJWT_KEY and SECRET_KEY.
KeyValues == {None, StrV(<<>>), StrV(<<"a">>)}

\* The values the host stores under EASYJWT_TOKEN_VALIDITY.
Validities == {None, IntV(1), StrV(<<"m">>)}

HostKeys == {CONFIGURATION_KEY, CONFIGURATION_TOKEN_VALIDITY,
             configuration_secret_key}

\* The values the host may store under configuration entry k.
HostValues(k) ==
  IF k = CONFIGURATION_TOKEN_VALIDITY THEN Validities ELSE KeyValues

\* An entry of the host that the extension has no business with.
OtherKey == "DEBUG"

EmptyMapping == [k \in {} |-> None]

\* All configuration mappings the host may start with.
HostConfigs ==
  { cfg \in UNION { [D \cup {OtherKey} -> KeyValues \cup Validities] :
                      D \in SUBSET HostKeys } :
      /\ cfg[OtherKey] = None
      /\ \A k \in (DOMAIN cfg) \ {OtherKey} : cfg[k] \in HostValues(k) }

\* The record of a call.
Call(op, app, arg, outcome, pre, used) ==
  [op |-> op, app |-> app, arg |-> arg, raised |-> outcome.raised,
   value |-> outcome.value, warnings |-> outcome.warnings,
   pre |-> pre, used |-> used]

\* The record left by a step of the host.
HostStep == Call("host", NoApp, None, Return(None, <<>>), EmptyMapping, None)

NoToken == [exists |-> FALSE, key |-> None, expiration_date |-> None]

\* key: the signing key; exp: the expiration claim of the token string;
\* date: the expiration_date of the creating object after create().
NoJwt == [issued |-> FALSE, key |-> None, exp |-> None, date |-> None]

Init ==
  /\ config \in [Apps -> HostConfigs]
  /\ \A a \in Apps \ {"A"} : DOMAIN config[a] = {OtherKey}
  /\ extensions = [a \in Apps |-> EmptyMapping]
  /\ constructed = FALSE
  /\ explicit_application = NoApp
  /\ current_app = NoApp
  /\ now = 1
  /\ flask_easyjwt = FALSE
  /\ token = NoToken
  /\ jwt = NoJwt
  /\ writes = 0
  /\ last = HostStep

(* ----------------------------- actions --------------------------------- *)

\* init_app(application): the registry and the configuration afterwards.
InitAppEffect(application) ==
  /\ extensions' = [extensions EXCEPT
                      ![application] = Store(@, EXTENSION_NAME, "FlaskEasyJWT")]
  /\ config' = [config EXCEPT ![application] = InitAppConfig(@)]

\* FlaskEasyJWT(application): application = NoApp stands for None.
Construct(application) ==
  /\ ~constructed
  /\ constructed' = TRUE
  /\ explicit_application' = application
  /\ IF application # NoApp
       THEN /\ InitAppEffect(application)
            /\ last' = Call("__init__", application, None,
                            Return(None, InitAppWarnings(config[application])),
                            config[application], None)
       ELSE /\ UNCHANGED <<extensions, config>>
            /\ last' = Call("__init__", NoApp, None, Return(None, <<>>),
                            EmptyMapping, None)
  /\ UNCHANGED <<current_app, now, flask_easyjwt, token, jwt, writes>>

\* FlaskEasyJWT.init_app(application)
InitApp(application) ==
  /\ constructed
  /\ InitAppEffect(application)
  /\ last' = Call("init_app", application, None,
                  Return(None, InitAppWarnings(config[application])),
                  config[application], None)
  /\ UNCHANGED <<constructed, explicit_application, current_app, now,
                 flask_easyjwt, token, jwt, writes>>

\* The host pushes or pops an application context.
SetCurrentApp(application) ==
  /\ application # current_app
  /\ current_app' = application
  /\ last' = HostStep
  /\ UNCHANGED <<config, extensions, constructed, explicit_application, now,
                 flask_easyjwt, token, jwt, writes>>

\* The host writes application.config[k] = v.
HostSet(application, k, v) ==
  /\ writes < MaxWrites
  /\ writes' = writes + 1
  /\ Get(config[application], k, FloatV(0)) # v
  /\ config' = [config EXCEPT ![application] = Store(@, k, v)]
  /\ last' = HostStep
  /\ UNCHANGED <<extensions, constructed, explicit_application, current_app,
                 now, flask_easyjwt, token, jwt>>

\* The host runs del application.config[k].
HostDel(application, k) ==
  /\ writes < MaxWrites
  /\ writes' = writes + 1
  /\ k \in DOMAIN config[application]
  /\ config' = [config EXCEPT ![application] = Delete(@, k)]
  /\ last' = HostStep
  /\ UNCHANGED <<extensions, constructed, explicit_application, current_app,
                 now, flask_easyjwt, token, jwt>>

\* Time passes between two calls.
Tick ==
  /\ now < MaxClock
  /\ now' = now + 1
  /\ last' = HostStep
  /\ UNCHANGED <<config, extensions, constructed, explicit_application,
                 current_app, flask_easyjwt, token, jwt, writes>>

\* The clock readings datetime.utcnow() may give inside a call entered at
\* the current clock reading.
ClockReadings == {t \in {now, now + 1} : t <= MaxClock}

\* Reading the property FlaskEasyJWT.key
GetKey ==
  /\ constructed
  /\ LET application == Application(explicit_application, current_app)
     IN last' = Call("key", application, None, Key(application, config),
                     EmptyMapping, None)
  /\ UNCHANGED <<config, extensions, constructed, explicit_application,
                 current_app, now, flask_easyjwt, token, jwt, writes>>

\* Reading the property FlaskEasyJWT.expiration_date
GetExpirationDate ==
  /\ constructed
  /\ \E utcnow \in ClockReadings :
       /\ now' = utcnow
       /\ LET application == Application(explicit_application, current_app)
          IN last' = Call("expiration_date", application, IntV(now),
                          ExpirationDate(application, config, utcnow),
                          EmptyMapping, None)
  /\ UNCHANGED <<config, extensions, constructed, explicit_application,
                 current_app, flask_easyjwt, token, jwt, writes>>

(* ------------------------------- Token --------------------------------- *)
\* ChooseKey testing "if not key": an explicit empty key counts as omitted.
ChooseKey_Falsy(key, bound, application, cfgs) ==
  IF key \notin {None, StrV(<<>>)} THEN Return(key, <<>>)
  ELSE IF ~bound THEN Raise("AttributeError", <<>>)
  ELSE Key(application, cfgs)

\* Token.__init__ lines 41-42 and Token.verify lines 104-105: the key that
\* is handed to EasyJWT.  bound: Token.flask_easyjwt is the extension.
ChooseKey(key, bound, application, cfgs) ==
  IF key # None THEN Return(key, <<>>)
  ELSE IF ~bound THEN Raise("AttributeError", <<>>)
  ELSE Key(application, cfgs)

\* DefaultExpiration asking the extension again once the date has passed.
DefaultExpiration_Renew(expiration_date, bound, application, cfgs, utcnow) ==
  IF expiration_date # None /\ expiration_date.n > utcnow
    THEN Return(expiration_date, <<>>)
  ELSE IF ~bound THEN Raise("AttributeError", <<>>)
  ELSE ExpirationDate(application, cfgs, utcnow)

\* DefaultExpiration assigning the extension's date unconditionally.
DefaultExpiration_Always(expiration_date, bound, application, cfgs, utcnow) ==
  IF ~bound THEN Raise("AttributeError", <<>>)
  ELSE ExpirationDate(application, cfgs, utcnow)

\* Token.create lines 62-63: the expiration date the token object carries
\* when EasyJWT.create is called.
DefaultExpiration(expiration_date, bound, application, cfgs, utcnow) ==
  IF expiration_date # None THEN Return(expiration_date, <<>>)
  ELSE IF ~bound THEN Raise("AttributeError", <<>>)
  ELSE ExpirationDate(application, cfgs, utcnow)

\* The errors EasyJWT.create documents (token.py lines 55-58).  The
\* expiration claim it writes is the expiration date either with its
\* sub-second part or, as a whole-second NumericDate, without it.
CreateErrors == {"IncompatibleKeyError", "MissingRequiredClaimsError"}

\* The start of the second a timestamp lies in.
SecondOf(t) == (t \div TicksPerSecond) * TicksPerSecond

\* A date without its sub-second part: datetime.replace(microsecond=0).
WholeSeconds(date) ==
  IF date = None THEN None ELSE DatetimeV(SecondOf(date.n))

\* EasyJWT.verify (token.py lines 84-107): the signature check, then the
\* expiration check of the claim set; the outcomes it can have.  A claim
\* that lies in the second of the verification may or may not count as
\* passed.  The value returned is the expiration_date of the verified object.
LibraryVerify(token_string, key, utcnow) ==
  IF key # token_string.key THEN {Raise("InvalidSignatureError", <<>>)}
  ELSE IF token_string.exp = None THEN {Return(None, <<>>)}
  ELSE (IF token_string.exp.n <= utcnow
          THEN {Raise("ExpiredTokenError", <<>>)} ELSE {})
       \cup
       (IF token_string.exp.n >= SecondOf(utcnow)
          THEN {Return(token_string.exp, <<>>)} ELSE {})

\* The expiration dates the host sets on a token object itself.
CustomExpirationDates == {None, DatetimeV(MaxDate)}

\* Token.flask_easyjwt = the extension
BindToken ==
  /\ constructed
  /\ ~flask_easyjwt
  /\ flask_easyjwt' = TRUE
  /\ last' = HostStep
  /\ UNCHANGED <<config, extensions, constructed, explicit_application,
                 current_app, now, token, jwt, writes>>

\* Token(key): key = None stands for the omitted argument.
TokenInit(key) ==
  /\ LET application == Application(explicit_application, current_app)
         chosen == ChooseKey(key, flask_easyjwt, application, config)
     IN /\ token' = IF chosen.raised = ""
                      THEN [exists |-> TRUE, key |-> chosen.value,
                            expiration_date |-> None]
                      ELSE token
        /\ last' = Call("Token.__init__", application, key,
                        Outcome(chosen.raised, None, chosen.warnings),
                        EmptyMapping, chosen.value)
  /\ UNCHANGED <<config, extensions, constructed, explicit_application,
                 current_app, now, flask_easyjwt, jwt, writes>>

\* token_object.expiration_date = v, set by the host
TokenSetExpiration(v) ==
  /\ token.exists
  /\ writes < MaxWrites
  /\ writes' = writes + 1
  /\ token.expiration_date # v
  /\ token' = [token EXCEPT !.expiration_date = v]
  /\ last' = HostStep
  /\ UNCHANGED <<config, extensions, constructed, explicit_application,
                 current_app, now, flask_easyjwt, jwt>>

\* token_object.create()
TokenCreate ==
  /\ token.exists
  /\ \E utcnow \in ClockReadings, error \in CreateErrors \cup {""},
          sub_second \in BOOLEAN :
       LET application == Application(explicit_application, current_app)
           expiration == DefaultExpiration(token.expiration_date,
                                           flask_easyjwt, application,
                                           config, utcnow)
           claim == IF sub_second THEN expiration.value
                    ELSE WholeSeconds(expiration.value)
       IN /\ now' = utcnow
          /\ IF expiration.raised # ""
               THEN /\ error = ""
                    /\ UNCHANGED <<token, jwt>>
                    /\ last' = Call("Token.create", application,
                                    token.expiration_date,
                                    Outcome(expiration.raised, None,
                                            expiration.warnings),
                                    EmptyMapping, None)
               ELSE /\ token' = [token EXCEPT
                                   !.expiration_date = expiration.value]
                    /\ jwt' = IF error = ""
                                THEN [issued |-> TRUE, key |-> token.key,
                                      exp |-> claim,
                                      date |-> expiration.value]
                                ELSE jwt
                    /\ last' = Call("Token.create", application,
                                    token.expiration_date,
                                    Outcome(error, None, expiration.warnings),
                                    EmptyMapping, None)
  /\ UNCHANGED <<config, extensions, constructed, explicit_application,
                 current_app, flask_easyjwt, writes>>

\* Token.verify(token, key): key = None stands for the omitted argument.
TokenVerify(key) ==
  /\ jwt.issued
  /\ LET application == Application(explicit_application, current_app)
         chosen == ChooseKey(key, flask_easyjwt, application, config)
     IN IF chosen.raised # ""
          THEN last' = Call("Token.verify", application, key,
                            Outcome(chosen.raised, None, chosen.warnings),
                            EmptyMapping, None)
          ELSE \E verified \in LibraryVerify(jwt, chosen.value, now) :
                 last' = Call("Token.verify", application, key,
                              Outcome(verified.raised, verified.value,
                                      chosen.warnings),
                              EmptyMapping, chosen.value)
  /\ UNCHANGED <<config, extensions, constructed, explicit_application,
                 current_app, now, flask_easyjwt, token, jwt, writes>>

(* --------------------------- specification ----------------------------- *)

\* The extension and its host.
Next ==
  \/ \E application \in Apps \cup {NoApp} : Construct(application)
  \/ \E application \in Apps : InitApp(application)
  \/ \E application \in Apps \cup {NoApp} : SetCurrentApp(application)
  \/ \E application \in Apps, k \in HostKeys :
       \E v \in HostValues(k) : HostSet(application, k, v)
  \/ \E application \in Apps, k \in HostKeys : HostDel(application, k)
  \/ Tick
  \/ GetKey
  \/ GetExpirationDate

Spec == Init /\ [][Next]_vars

\* The characters of the configuration strings the model explores.
Chars == {"0", "1", "9", "-", "+", " ", "_", "m"}

Strings == UNION { [1..n -> Chars] : n \in 0..MaxStrLen }

\* Values of every kind the host may store under EASYJWT_TOKEN_VALIDITY.
AllValidities ==
  {None, FloatV(1), BytesV(<<"1">>), BoolV(0), BoolV(1)}
    \cup { IntV(n) : n \in (0 - MaxValidity)..MaxValidity }
    \cup { TimedeltaV(n) : n \in (0 - MaxValidity)..MaxValidity }
    \cup { StrV(str) : str \in Strings }

\* The state after FlaskEasyJWT(A) on an application A whose host has set
\* EASYJWT_TOKEN_VALIDITY.
InitValidity ==
  /\ \E v \in AllValidities :
       LET pre == (OtherKey :> None) @@ (CONFIGURATION_TOKEN_VALIDITY :> v)
       IN /\ config = [a \in Apps |-> IF a = "A" THEN InitAppConfig(pre)
                                       ELSE (OtherKey :> None)]
          /\ last = Call("__init__", "A", None,
                         Return(None, InitAppWarnings(pre)), pre, None)
  /\ extensions = [a \in Apps |-> IF a = "A"
                                    THEN Store(EmptyMapping, EXTENSION_NAME,
                                               "FlaskEasyJWT")
                                    ELSE EmptyMapping]
  /\ constructed = TRUE
  /\ explicit_application = "A"
  /\ current_app = NoApp
  /\ now = 1
  /\ flask_easyjwt = FALSE
  /\ token = NoToken
  /\ jwt = NoJwt
  /\ writes = 0

\* The expiration_date accessor under every kind of validity value.
NextValidity ==
  \/ \E v \in Validities \cup {TimedeltaV(2), StrV(<<"2">>)} :
       HostSet("A", CONFIGURATION_TOKEN_VALIDITY, v)
  \/ Tick
  \/ GetExpirationDate

SpecValidity == InitValidity /\ [][NextValidity]_vars

\* The configurations of application A when tokens are used.
TokenConfigs ==
  { cfg \in HostConfigs : configuration_secret_key \notin DOMAIN cfg }

\* The state after FlaskEasyJWT(A) or FlaskEasyJWT() in a host with
\* application A, before the Token class is given the extension.
InitToken ==
  /\ \E pre \in TokenConfigs, explicit \in {NoApp, "A"} :
       /\ explicit_application = explicit
       /\ config = [a \in Apps |->
                      IF a # "A" THEN (OtherKey :> None)
                      ELSE IF explicit = "A" THEN InitAppConfig(pre) ELSE pre]
       /\ extensions = [a \in Apps |->
                          IF a = explicit
                            THEN Store(EmptyMapping, EXTENSION_NAME,
                                       "FlaskEasyJWT")
                            ELSE EmptyMapping]
       /\ last = IF explicit = "A"
                   THEN Call("__init__", "A", None,
                             Return(None, InitAppWarnings(pre)), pre, None)
                   ELSE Call("__init__", NoApp, None, Return(None, <<>>),
                             EmptyMapping, None)
  /\ constructed = TRUE
  /\ current_app = NoApp
  /\ now = 1
  /\ flask_easyjwt = FALSE
  /\ token = NoToken
  /\ jwt = NoJwt
  /\ writes = 0

\* The Token class, the extension it reads and their host.
NextToken ==
  \/ BindToken
  \/ \E key \in KeyValues : TokenInit(key)
  \/ \E v \in CustomExpirationDates : TokenSetExpiration(v)
  \/ TokenCreate
  \/ \E key \in KeyValues : TokenVerify(key)
  \/ \E application \in {"A", NoApp} : SetCurrentApp(application)
  \/ \E k \in {CONFIGURATION_KEY, CONFIGURATION_TOKEN_VALIDITY} :
       \E v \in HostValues(k) : HostSet("A", k, v)
  \/ Tick

SpecToken == InitToken /\ [][NextToken]_vars

(* ------------------------------ claims --------------------------------- *)

\* The message contains the phrase as consecutive words.
Contains(message, phrase) ==
  \E i \in 1..(Len(message) - Len(phrase) + 1) :
    SubSeq(message, i, i + Len(phrase) - 1) = phrase

\* The message begins with the phrase.
BeginsWith(message, phrase) ==
  /\ Len(phrase) <= Len(message)
  /\ SubSeq(message, 1, Len(phrase)) = phrase

\* The last call ran init_app on an application (directly or from __init__).
Bound == last.op \in {"init_app", "__init__"} /\ last.app # NoApp

\* C1: when init_app runs on an application whose configuration has no
\* EASYJWT_KEY entry, the entry afterwards equals the SECRET_KEY value of that
\* moment; no warning when that value is a key; when it is None (or there is
\* no SECRET_KEY) the entry is None, exactly one warning containing "No key
\* set for encrypting tokens." is emitted, and init_app returns.
C1_BindTimeDefaulting ==
  (Bound /\ CONFIGURATION_KEY \notin DOMAIN last.pre) =>
    LET secret == IF configuration_secret_key \in DOMAIN last.pre
                    THEN last.pre[configuration_secret_key] ELSE None
    IN /\ last.raised = ""
       /\ CONFIGURATION_KEY \in DOMAIN config[last.app]
       /\ config[last.app][CONFIGURATION_KEY] = secret
       /\ secret # None => last.warnings = <<>>
       /\ secret = None =>
            /\ Len(last.warnings) = 1
            /\ Contains(last.warnings[1],
                        <<"No", "key", "set", "for", "encrypting", "tokens",
                          ".">>)

C1_Witness ==
  /\ Bound
  /\ CONFIGURATION_KEY \notin DOMAIN last.pre
  /\ configuration_secret_key \in DOMAIN last.pre
  /\ last.pre[configuration_secret_key] = StrV(<<"a">>)
  /\ config[last.app][CONFIGURATION_KEY] = StrV(<<"a">>)
  /\ last.warnings = <<>>

\* C2: a step that runs init_app keeps every configuration entry that was
\* present, in every application, and adds nothing but EASYJWT_KEY and
\* EASYJWT_TOKEN_VALIDITY to the application it was run on.
C2_InitAppKeepsEntries ==
  [][ (last'.op \in {"init_app", "__init__"} /\ last'.app # NoApp) =>
        \A a \in Apps :
          /\ \A k \in DOMAIN config[a] :
               k \in DOMAIN config'[a] /\ config'[a][k] = config[a][k]
          /\ (DOMAIN config'[a]) \ (DOMAIN config[a]) \subseteq
               (IF a = last'.app
                  THEN {CONFIGURATION_KEY, CONFIGURATION_TOKEN_VALIDITY}
                  ELSE {}) ]_vars

C2_Witness ==
  /\ Bound
  /\ CONFIGURATION_KEY \in DOMAIN last.pre
  /\ last.pre[CONFIGURATION_KEY] = None
  /\ configuration_secret_key \in DOMAIN last.pre
  /\ last.pre[configuration_secret_key] = StrV(<<"a">>)
  /\ config[last.app][CONFIGURATION_KEY] = None

\* C3: with a resolvable application, the key accessor returns a set
\* EASYJWT_KEY verbatim without warning, and for an unset one (absent or None)
\* returns None with exactly one warning beginning "No key set", not raising.
C3_KeyAccessor ==
  (last.op = "key" /\ last.app # NoApp) =>
    IF /\ CONFIGURATION_KEY \in DOMAIN config[last.app]
       /\ config[last.app][CONFIGURATION_KEY] # None
      THEN /\ last.raised = ""
           /\ last.value = config[last.app][CONFIGURATION_KEY]
           /\ last.warnings = <<>>
      ELSE /\ last.raised = ""
           /\ last.value = None
           /\ Len(last.warnings) = 1
           /\ BeginsWith(last.warnings[1], <<"No", "key", "set">>)

\* C6: with EASYJWT_TOKEN_VALIDITY absent or None, the expiration_date
\* accessor returns None, warns nothing and raises nothing.
C6_NoValidityNoExpiration ==
  (/\ last.op = "expiration_date"
   /\ last.app # NoApp
   /\ (CONFIGURATION_TOKEN_VALIDITY \in DOMAIN config[last.app] =>
         config[last.app][CONFIGURATION_TOKEN_VALIDITY] = None)) =>
    /\ last.raised = ""
    /\ last.value = None
    /\ last.warnings = <<>>

\* C8: an accessor read with no explicit application and no active
\* application raises the context error, returns nothing and warns nothing.
C8_ContextRequired ==
  (/\ last.op \in {"key", "expiration_date"}
   /\ explicit_application = NoApp
   /\ current_app = NoApp) =>
    /\ last.raised = "RuntimeError"
    /\ last.warnings = <<>>

C8_Witness ==
  /\ last.op = "key"
  /\ explicit_application = NoApp
  /\ current_app = NoApp
  /\ last.raised = "RuntimeError"
  /\ \E a \in Apps : CONFIGURATION_KEY \in DOMAIN config[a]

\* The last call read expiration_date with the validity entry present.
ReadValidity ==
  /\ last.op = "expiration_date"
  /\ last.app # NoApp
  /\ CONFIGURATION_TOKEN_VALIDITY \in DOMAIN config[last.app]

\* The validity entry the last call read.
validity_read == config[last.app][CONFIGURATION_TOKEN_VALIDITY]

\* The validity is an integer or a string that parses as an integer.
IsSeconds(v) == v.type = "int" \/ (v.type = "str" /\ ParseInt(v.s).ok)

\* The integer N that such a validity stands for.
SecondsOf(v) == IF v.type = "int" THEN v.n ELSE ParseInt(v.s).n

C7_InvalidValidityWarns ==
  (/\ ReadValidity
   /\ validity_read # None
   /\ validity_read.type \notin {"timedelta", "int", "bool"}
   /\ validity_read.type = "str" => ~ParseInt(validity_read.s).ok) =>
    /\ last.raised = ""
    /\ last.value = None
    /\ Len(last.warnings) = 1
    /\ Contains(last.warnings[1],
                <<"must", "be", "an", "int", ",", "a", "string", "castable",
                  "to", "an", "int", ",", "or">>)

C7_Witness ==
  /\ ReadValidity
  /\ validity_read = StrV(<<"1", " ", "m">>)
  /\ last.raised = ""
  /\ last.value = None
  /\ Len(last.warnings) = 1

\* The exceptions that can only come from reading the extension.
AccessorErrors == {"AttributeError", "RuntimeError", "KeyError", "OverflowError"}

\* C9: Token(key) and Token.verify(token, key) with an explicit key hand
\* exactly that key to EasyJWT and read nothing from the extension (no warning,
\* no error of the accessor); without an explicit key they hand over what the
\* bound extension's key accessor returns at that moment.
C9_KeySelection ==
  (last.op \in {"Token.__init__", "Token.verify"}) =>
    IF last.arg # None
      THEN /\ last.used = last.arg
           /\ last.warnings = <<>>
           /\ last.raised \notin AccessorErrors
           /\ last.op = "Token.__init__" =>
                (last.raised = "" /\ token.exists /\ token.key = last.arg)
      ELSE flask_easyjwt =>
             LET k == Key(Application(explicit_application, current_app),
                          config)
             IN /\ last.warnings = k.warnings
                /\ k.raised # "" => last.raised = k.raised
                /\ k.raised = "" =>
                     /\ last.used = k.value
                     /\ last.op = "Token.__init__" =>
                          (last.raised = "" /\ token.key = k.value)

C9_Witness ==
  /\ last.op = "Token.verify"
  /\ last.arg = StrV(<<>>)
  /\ last.used = StrV(<<>>)
  /\ last.raised = ""
  /\ flask_easyjwt
  /\ Key(Application(explicit_application, current_app), config).raised
       = "RuntimeError"

\* C10: create() on a token object without expiration date leaves it with
\* the date the bound extension's expiration_date accessor returns in that
\* call; a date the caller had set is unchanged and the extension is not read.
C10_CreateFillsUnsetExpiration ==
  (last.op = "Token.create") =>
    IF last.arg = None
      THEN flask_easyjwt =>
             LET e == ExpirationDate(
                        Application(explicit_application, current_app),
                        config, now)
             IN /\ last.warnings = e.warnings
                /\ e.raised = "" => token.expiration_date = e.value
                /\ e.raised # "" =>
                     (last.raised = e.raised /\ token.expiration_date = None)
      ELSE /\ token.expiration_date = last.arg
           /\ last.warnings = <<>>
           /\ last.raised \notin AccessorErrors

C10_Witness ==
  /\ last.op = "Token.create"
  /\ last.arg = None
  /\ last.raised = ""
  /\ flask_easyjwt
  /\ token.expiration_date = DatetimeV(now + TicksPerSecond)
  /\ jwt.issued

\* The last call verified the token string with a key: the explicit one or
\* the one the bound extension's key accessor returned.
VerifiedWithKey ==
  /\ last.op = "Token.verify"
  /\ last.arg = None =>
       /\ flask_easyjwt
       /\ Key(Application(explicit_application, current_app), config).raised
            = ""

\* The key of that verification.
verify_key ==
  IF last.arg # None THEN last.arg
  ELSE Key(Application(explicit_application, current_app), config).value

C12_NoCaching ==
  [][ /\ last'.op \in {"key", "expiration_date"} =>
           last'.app = Application(explicit_application, current_app)
      /\ (/\ last'.op = "key"
          /\ last'.app # NoApp
          /\ CONFIGURATION_KEY \in DOMAIN config[last'.app]) =>
           /\ last'.raised = ""
           /\ last'.value = config[last'.app][CONFIGURATION_KEY]
      /\ (/\ last'.op = "expiration_date"
          /\ last'.app # NoApp
          /\ CONFIGURATION_TOKEN_VALIDITY \in DOMAIN config[last'.app]) =>
           LET v == config[last'.app][CONFIGURATION_TOKEN_VALIDITY]
           IN /\ last'.raised = ""
              /\ v = None => (last'.value = None /\ last'.warnings = <<>>)
              /\ v.type = "int" =>
                   last'.value = DatetimeV(now' + v.n * TicksPerSecond)
              /\ v.type = "str" =>
                   (last'.value = None /\ Len(last'.warnings) = 1) ]_vars

\* Application B starts without any entry: it was given its key by a host
\* write, and the read that follows returns it.
C12_Witness ==
  /\ last.op = "key"
  /\ last.app = "B"
  /\ writes = 1
  /\ CONFIGURATION_TOKEN_VALIDITY \in DOMAIN config["B"]
  /\ config["B"][CONFIGURATION_KEY] = StrV(<<"a">>)
  /\ last.value = StrV(<<"a">>)
  /\ last.warnings = <<>>

\* The validity stands for a span of time: an integer or bool (seconds), a
\* string parsing as an integer (seconds) or a timedelta.
IsSpan(v) ==
  \/ v.type \in {"int", "bool", "timedelta"}
  \/ (v.type = "str" /\ ParseInt(v.s).ok)

\* That span, in ticks.
SpanOf(v) ==
  IF v.type = "timedelta" THEN v.n
  ELSE IF v.type = "str" THEN ParseInt(v.s).n * TicksPerSecond
  ELSE v.n * TicksPerSecond

\* C13 as stated: for every validity value, expiration_date returns None
\* or a timestamp not earlier than the clock reading of the call.
C13_NeverInThePast ==
  ReadValidity =>
    /\ last.raised = ""
    /\ last.value = None \/ last.value.n >= now

\* C13 amended: for every validity value that is not a negative span,
\* expiration_date returns None or a timestamp not earlier than the clock
\* reading of the call, or raises OverflowError when the date is not
\* representable; for a negative span it returns a timestamp earlier than
\* the clock reading, or raises OverflowError.
C13_NeverInThePastUnlessNegative ==
  ReadValidity =>
    /\ last.raised \in {"", "OverflowError"}
    /\ (IsSpan(validity_read) /\ SpanOf(validity_read) < 0) =>
         (last.raised = "" =>
            (last.value # None /\ last.value.n < now))
    /\ ~(IsSpan(validity_read) /\ SpanOf(validity_read) < 0) =>
         (last.raised = "" =>
            (last.value = None \/ last.value.n >= now))
    /\ last.raised = "OverflowError" =>
         /\ IsSpan(validity_read)
         /\ \/ SpanOf(validity_read) > MaxTimedelta
            \/ SpanOf(validity_read) < 0 - MaxTimedelta
            \/ now + SpanOf(validity_read) > MaxDate
            \/ now + SpanOf(validity_read) < MinDate

C13_Witness ==
  /\ ReadValidity
  /\ validity_read = StrV(<<"-", "0">>)
  /\ last.raised = ""
  /\ last.value = DatetimeV(now)

\* init_app has run on the application: it is in the extension registry.
Registered(application) == EXTENSION_NAME \in DOMAIN extensions[application]

\* The entry of a configuration mapping under k: empty when there is none.
Entry(cfg, k) == IF k \in DOMAIN cfg THEN <<cfg[k]>> ELSE <<>>

\* C14: a run of init_app on an application on which it has run before, and
\* whose configuration still has the two EASYJWT entries, leaves the
\* configuration mapping and the registry entry 'easyjwt' as they were; every
\* run emits the missing-key warning exactly when EASYJWT_KEY is None
\* afterwards.
C14_InitAppIdempotent ==
  [][ \A a \in Apps :
        (last'.op \in {"init_app", "__init__"} /\ last'.app = a) =>
          /\ last'.raised = ""
          /\ last'.warnings =
               IF config'[a][CONFIGURATION_KEY] = None
                 THEN <<InitWarning>> ELSE <<>>
          /\ ( /\ Registered(a)
               /\ CONFIGURATION_KEY \in DOMAIN config[a]
               /\ CONFIGURATION_TOKEN_VALIDITY \in DOMAIN config[a] ) =>
               /\ config' = config
               /\ extensions' = extensions
               /\ extensions'[a][EXTENSION_NAME] = "FlaskEasyJWT" ]_vars

C14_Witness ==
  /\ last.op = "init_app"
  /\ last.app = "A"
  /\ explicit_application = "A"
  /\ last.pre = config["A"]
  /\ configuration_secret_key \notin DOMAIN config["A"]
  /\ config["A"][CONFIGURATION_KEY] = None
  /\ last.warnings = <<InitWarning>>
  /\ writes = 0

\* C15: once init_app has run on an application and its EASYJWT_KEY entry is
\* there, a change of SECRET_KEY and a further run of init_app leave that
\* entry as it is, and the key accessor returns the entry whatever SECRET_KEY
\* is: None with a warning when the entry is None.
C15_SecretKeyReadAtBindTime ==
  [][ \A a \in Apps :
        (Registered(a) /\ CONFIGURATION_KEY \in DOMAIN config[a]) =>
          /\ Entry(config'[a], configuration_secret_key)
               # Entry(config[a], configuration_secret_key) =>
               Entry(config'[a], CONFIGURATION_KEY)
                 = Entry(config[a], CONFIGURATION_KEY)
          /\ (last'.op = "init_app" /\ last'.app = a) =>
               Entry(config'[a], CONFIGURATION_KEY)
                 = Entry(config[a], CONFIGURATION_KEY)
          /\ (last'.op = "key" /\ last'.app = a) =>
               /\ last'.raised = ""
               /\ last'.value = config[a][CONFIGURATION_KEY]
               /\ last'.value # None => last'.warnings = <<>>
               /\ last'.value = None =>
                    /\ Len(last'.warnings) = 1
                    /\ BeginsWith(last'.warnings[1], <<"No", "key", "set">>)
    ]_vars

C15_Witness ==
  /\ last.op = "init_app"
  /\ last.app = "B"
  /\ last.pre = config["B"]
  /\ config["B"][CONFIGURATION_KEY] = None
  /\ configuration_secret_key \in DOMAIN config["B"]
  /\ config["B"][configuration_secret_key] = StrV(<<"a">>)
  /\ last.warnings = <<InitWarning>>

\* C16: the accessors of an extension constructed with an application read
\* that application's configuration whichever application is active; those
\* of an extension constructed without one read the configuration of the
\* application active at the access, and fail without one; init_app leaves
\* the application given at construction as it is.
C16_ApplicationResolution ==
  [][ /\ last'.op = "init_app" => explicit_application' = explicit_application
      /\ last'.op \in {"key", "expiration_date"} =>
           LET a == IF explicit_application # NoApp
                      THEN explicit_application ELSE current_app
           IN /\ last'.app = a
              /\ a = NoApp => last'.raised = "RuntimeError"
              /\ (a # NoApp /\ last'.op = "key") =>
                   IF CONFIGURATION_KEY \in DOMAIN config[a]
                     THEN /\ last'.raised = ""
                          /\ last'.value = config[a][CONFIGURATION_KEY]
                     ELSE last'.raised = "KeyError"
              /\ (a # NoApp /\ last'.op = "expiration_date") =>
                   IF CONFIGURATION_TOKEN_VALIDITY \in DOMAIN config[a]
                     THEN LET v == config[a][CONFIGURATION_TOKEN_VALIDITY]
                          IN /\ last'.raised = ""
                             /\ v.type = "int" =>
                                  last'.value
                                    = DatetimeV(now' + v.n * TicksPerSecond)
                             /\ v.type # "int" => last'.value = None
                     ELSE last'.raised = "KeyError" ]_vars

C16_Witness ==
  /\ last.op = "key"
  /\ explicit_application = NoApp
  /\ current_app = "B"
  /\ Registered("A")
  /\ ~Registered("B")
  /\ CONFIGURATION_KEY \in DOMAIN config["A"]
  /\ config["A"][CONFIGURATION_KEY] = StrV(<<>>)
  /\ last.value = StrV(<<"a">>)
  /\ last.raised = ""

\* C17: a create() call on a token object whose expiration_date is set
\* keeps that date, whatever the clock and EASYJWT_TOKEN_VALIDITY are by
\* then, and does not ask the extension; a create() call on an object whose
\* expiration_date is still None asks the extension at that call.
C17_ExpirationFixedOnceSet ==
  [][ (last'.op = "Token.create" /\ token.exists) =>
        /\ token.expiration_date # None =>
             /\ token'.expiration_date = token.expiration_date
             /\ last'.warnings = <<>>
             /\ last'.raised \notin AccessorErrors
        /\ (token.expiration_date = None /\ flask_easyjwt) =>
             LET a == Application(explicit_application, current_app)
             IN /\ a = NoApp =>
                     (last'.raised = "RuntimeError" /\ token' = token)
                /\ (a # NoApp /\ CONFIGURATION_TOKEN_VALIDITY
                                   \notin DOMAIN config[a]) =>
                     (last'.raised = "KeyError" /\ token' = token)
                /\ (a # NoApp /\ CONFIGURATION_TOKEN_VALIDITY
                                   \in DOMAIN config[a]) =>
                     LET v == config[a][CONFIGURATION_TOKEN_VALIDITY]
                     IN /\ v = None =>
                             /\ token'.expiration_date = None
                             /\ last'.warnings = <<>>
                        /\ v.type = "str" =>
                             /\ token'.expiration_date = None
                             /\ last'.warnings = <<ValidityWarning>>
                        /\ v.type = "int" =>
                             token'.expiration_date
                               = DatetimeV(now' + v.n * TicksPerSecond)
    ]_vars

C17_Witness ==
  /\ last.op = "Token.create"
  /\ last.raised = ""
  /\ flask_easyjwt
  /\ last.arg = DatetimeV(1 + TicksPerSecond)
  /\ token.expiration_date = last.arg
  /\ now = 3
  /\ last.app = "A"
  /\ config["A"][CONFIGURATION_TOKEN_VALIDITY] = StrV(<<"m">>)
  /\ jwt.issued

====
